---- MODULE Spec2Model ----
(***************************************************************************)
(* olx-br: a client of the OLX Brasil OAuth and ad-import HTTP API.        *)
(* src/src/index.ts holds three revisions of class Olx (a stub, the        *)
(* promise-returning class and the error-first-callback class) and the     *)
(* two axios instances of services/api.  The model keeps the three         *)
(* credential fields of an instance, and one record per call slot with     *)
(* the request it issued, what the transport answered and what the caller  *)
(* was handed.                                                             *)
(***************************************************************************)
EXTENDS Integers, Sequences, FiniteSets, TLC

VARIABLES client_id, client_secret, redirect_uri, ctor, calls

vars == <<client_id, client_secret, redirect_uri, ctor, calls>>

(***************************************************************************)
(* Bounds.                                                                 *)
(***************************************************************************)
MaxInFlight == 2
MaxIds == 2

(***************************************************************************)
(* JavaScript values.                                                      *)
(***************************************************************************)
Undefined == [t |-> "undefined"]
Null == [t |-> "null"]
Str(s) == [t |-> "str", v |-> s]
Num(n) == [t |-> "num", v |-> n]
Bool(b) == [t |-> "bool", v |-> b]
Obj(f) == [t |-> "obj", f |-> f]
Arr(s) == [t |-> "arr", items |-> s]

\* ToBoolean, as applied by `if (x)` and by `a || b`
Truthy(v) ==
    CASE v.t = "undefined" -> FALSE
      [] v.t = "null" -> FALSE
      [] v.t = "str" -> v.v # ""
      [] v.t = "num" -> v.v # 0
      [] v.t = "bool" -> v.v
      [] OTHER -> TRUE

\* a || b
OrElse(a, b) == IF Truthy(a) THEN a ELSE b

Nullish(v) == v.t \in {"undefined", "null"}

\* v.name for a non-nullish v: a missing property reads as undefined
Get(v, name) ==
    IF v.t \in {"obj", "err"} /\ name \in DOMAIN v.f THEN v.f[name] ELSE Undefined

\* v?.name
OptGet(v, name) == IF Nullish(v) THEN Undefined ELSE Get(v, name)

\* `${v}` for the values the methods interpolate
Template(v) ==
    CASE v.t = "str" -> v.v
      [] v.t = "num" -> ToString(v.v)
      [] v.t = "bool" -> IF v.v THEN "true" ELSE "false"
      [] v.t = "null" -> "null"
      [] OTHER -> "undefined"

(***************************************************************************)
(* services/api: the two axios instances.                                  *)
(***************************************************************************)
GET_TOKEN_URL == "https://auth.olx.com.br/"
API_URL == "https://apps.olx.com.br/"

authApi == [name |-> "authApi", baseURL |-> GET_TOKEN_URL,
            contentType |-> "application/x-www-form-urlencoded"]
appApi == [name |-> "appApi", baseURL |-> API_URL,
           contentType |-> "application/json"]

\* instance.post(url, data) / instance.put(url, data): the request put on the wire
Request(api, verb, path, data) ==
    [api |-> api.name, verb |-> verb, path |-> path, data |-> data,
     contentType |-> api.contentType]

\* a transport error: err.response is undefined unless the remote side answered
AxiosError(response, c) ==
    [t |-> "err", f |-> [name |-> Str("AxiosError"), response |-> response], of |-> c]
TypeError(c) ==
    [t |-> "err", f |-> [name |-> Str("TypeError")], of |-> c]
CallbackError(c) ==
    [t |-> "err", f |-> [name |-> Str("CallbackError")], of |-> c]
ErrorResponse(body) == Obj([data |-> body, status |-> Num(400)])

(***************************************************************************)
(* Class Olx, promise-returning revision: what each method builds before   *)
(* it hands the request to axios.                                          *)
(***************************************************************************)

\* new URLSearchParams() and params.append(name, value)
URLSearchParams == [t |-> "form", pairs |-> <<>>]
append(params, name, value) ==
    [params EXCEPT !.pairs = Append(@, [name |-> name, value |-> value])]

\* state is appended whenever it is given: if (state !== undefined)
getAuthUrl_stateDefined(autoupload, state) ==
    LET au == IF autoupload.t = "undefined" THEN Bool(TRUE) ELSE autoupload
        scope == IF Truthy(au) THEN "basic_user_info" \o "%20autoupload"
                               ELSE "basic_user_info"
        query == "response_type=code&client_id=" \o client_id
                 \o "&redirect_uri=" \o redirect_uri \o "&scope=" \o scope
        full == IF state # Undefined THEN query \o "&state=" \o Template(state)
                                     ELSE query
    IN  authApi.baseURL \o "/oauth?" \o full

\* autoupload has no default value: omitted reads as false
getAuthUrl_noDefault(autoupload, state) ==
    LET scope == IF Truthy(autoupload) THEN "basic_user_info" \o "%20autoupload"
                                       ELSE "basic_user_info"
        query == "response_type=code&client_id=" \o client_id
                 \o "&redirect_uri=" \o redirect_uri \o "&scope=" \o scope
        full == IF Truthy(state) THEN query \o "&state=" \o Template(state)
                                 ELSE query
    IN  authApi.baseURL \o "/oauth?" \o full

getAuthUrl(autoupload, state) ==
    LET au == IF autoupload.t = "undefined" THEN Bool(TRUE) ELSE autoupload
        scope == IF Truthy(au) THEN "basic_user_info" \o "%20autoupload"
                               ELSE "basic_user_info"
        query == "response_type=code&client_id=" \o client_id
                 \o "&redirect_uri=" \o redirect_uri \o "&scope=" \o scope
        full == IF Truthy(state) THEN query \o "&state=" \o Template(state)
                                 ELSE query
    IN  authApi.baseURL \o "/oauth?" \o full

getToken(code) ==
    LET p1 == append(URLSearchParams, "code", code)
        p2 == append(p1, "client_id", client_id)
        p3 == append(p2, "client_secret", client_secret)
        p4 == append(p3, "redirect_uri", redirect_uri)
        params == append(p4, "grant_type", "authorization_code")
    IN  Request(authApi, "POST", "/oauth/token", params)

getAnuncios(access_token) ==
    Request(appApi, "POST", "/autoupload/published",
            Obj([access_token |-> access_token]))

getBasicUserInfo(access_token) ==
    Request(appApi, "POST", "/oauth_api/basic_user_info",
            Obj([access_token |-> access_token]))

putAnuncios(access_token, anuncios) ==
    LET data == Obj([access_token |-> access_token, ad_list |-> anuncios])
    IN  Request(appApi, "PUT", "/autoupload/import", data)

\* id_anuncios.forEach(id => anuncios.push({id, operation: "delete"})), from index i on
RECURSIVE forEachPush(_, _, _)
forEachPush(id_anuncios, i, anuncios) ==
    IF i > Len(id_anuncios) THEN anuncios
    ELSE forEachPush(id_anuncios, i + 1,
                     Append(anuncios, [id |-> id_anuncios[i], operation |-> "delete"]))

\* the loop over the ids starts one element too late
deleteAnuncios_fromSecond(access_token, id_anuncios) ==
    LET anuncios == forEachPush(id_anuncios, 2, <<>>)
        data == Obj([access_token |-> access_token, ad_list |-> Arr(anuncios)])
    IN  Request(appApi, "PUT", "/autoupload/import", data)

deleteAnuncios(access_token, id_anuncios) ==
    LET anuncios == forEachPush(id_anuncios, 1, <<>>)
        data == Obj([access_token |-> access_token, ad_list |-> Arr(anuncios)])
    IN  Request(appApi, "PUT", "/autoupload/import", data)

getStatusAnuncio(access_token, token_anuncio) ==
    Request(appApi, "POST", "/autoupload/import/" \o token_anuncio,
            Obj([access_token |-> access_token]))

\* the id_modelo test is not nested in the id_marca test
getModelosCarros_flatTests(access_token, id_marca, id_modelo) ==
    LET uri0 == "/autoupload/car_info"
        uri1 == IF Truthy(id_marca) THEN uri0 \o "/" \o Template(id_marca) ELSE uri0
        uri == IF Truthy(id_modelo) THEN uri1 \o "/" \o Template(id_modelo) ELSE uri1
    IN  Request(appApi, "POST", uri, Obj([access_token |-> access_token]))

getModelosCarros(access_token, id_marca, id_modelo) ==
    LET uri0 == "/autoupload/car_info"
        uri == IF Truthy(id_marca)
               THEN LET uri1 == uri0 \o "/" \o Template(id_marca)
                    IN  IF Truthy(id_modelo) THEN uri1 \o "/" \o Template(id_modelo)
                                             ELSE uri1
               ELSE uri0
    IN  Request(appApi, "POST", uri, Obj([access_token |-> access_token]))

getModelosMotos(access_token, id_marca, id_modelo) ==
    LET uri0 == "/autoupload/moto_info"
        uri == IF Truthy(id_marca)
               THEN LET uri1 == uri0 \o "/" \o Template(id_marca)
                    IN  IF Truthy(id_modelo) THEN uri1 \o "/" \o Template(id_modelo)
                                             ELSE uri1
               ELSE uri0
    IN  Request(appApi, "POST", uri, Obj([access_token |-> access_token]))

getCilindradas(access_token) ==
    Request(appApi, "POST", "/autoupload/moto_cubiccms_info",
            Obj([access_token |-> access_token]))

(***************************************************************************)
(* Class Olx, error-first-callback revision.                               *)
(***************************************************************************)
getAuthUrlCb(autoupload, state) ==
    LET au == IF autoupload.t = "undefined" THEN Bool(TRUE) ELSE autoupload
        scope == IF Truthy(au) THEN "basic_user_info" \o "%20autoupload"
                               ELSE "basic_user_info"
        query == "response_type=code&client_id=" \o client_id
                 \o "&redirect_uri=" \o redirect_uri \o "&scope=" \o scope
        full == IF Truthy(state) THEN query \o "&state=" \o Template(state)
                                 ELSE query
    IN  authApi.baseURL \o "/oauth?" \o full

getTokenCb(code) ==
    LET p1 == append(URLSearchParams, "code", code)
        p2 == append(p1, "client_id", client_id)
        p3 == append(p2, "client_secret", client_secret)
        p4 == append(p3, "redirect_uri", redirect_uri)
        params == append(p4, "grant_type", "authorization_code")
    IN  Request(authApi, "POST", "/oauth/token", params)

getAnunciosCb(access_token) ==
    Request(appApi, "POST", "/autoupload/published",
            Obj([access_token |-> access_token]))

getBasicUserInfoCb(access_token) ==
    Request(appApi, "POST", "/oauth_api/basic_user_info",
            Obj([access_token |-> access_token]))

putAnunciosCb(access_token, anuncios) ==
    LET data == Obj([access_token |-> access_token, ad_list |-> anuncios])
    IN  Request(appApi, "PUT", "/autoupload/import", data)

deleteAnunciosCb(access_token, id_anuncios) ==
    LET anuncios == forEachPush(id_anuncios, 1, <<>>)
        data == Obj([access_token |-> access_token, ad_list |-> Arr(anuncios)])
    IN  Request(appApi, "PUT", "/autoupload/import", data)

getStatusAnuncioCb(access_token, token_anuncio) ==
    Request(appApi, "POST", "/autoupload/import/" \o token_anuncio,
            Obj([access_token |-> access_token]))

getCarroInfo(access_token, id_marca, id_modelo) ==
    LET uri0 == "/autoupload/car_info"
        uri == IF Truthy(id_marca)
               THEN LET uri1 == uri0 \o "/" \o Template(id_marca)
                    IN  IF Truthy(id_modelo) THEN uri1 \o "/" \o Template(id_modelo)
                                             ELSE uri1
               ELSE uri0
    IN  Request(appApi, "POST", uri, Obj([access_token |-> access_token]))

getMotoInfo(access_token, id_marca, id_modelo) ==
    LET uri0 == "/autoupload/moto_info"
        uri == IF Truthy(id_marca)
               THEN LET uri1 == uri0 \o "/" \o Template(id_marca)
                    IN  IF Truthy(id_modelo) THEN uri1 \o "/" \o Template(id_modelo)
                                             ELSE uri1
               ELSE uri0
    IN  Request(appApi, "POST", uri, Obj([access_token |-> access_token]))

getMotoCilindradas(access_token) ==
    Request(appApi, "POST", "/autoupload/moto_cubiccms_info",
            Obj([access_token |-> access_token]))

(***************************************************************************)
(* Class Olx, first revision: getToken(code, callback) with an empty body. *)
(***************************************************************************)
getTokenStub(code) == <<>>

(***************************************************************************)
(* Inputs of the callers and answers of the transport.                     *)
(***************************************************************************)
Creds ==
    { [client_id |-> "cid-1", client_secret |-> "s3cret",
       redirect_uri |-> "https://app.example/cb"],
      [client_id |-> "cid-2", client_secret |-> "hunter2",
       redirect_uri |-> "https://app.example/cb?x=1&y=2"] }

Codes == {"abc123", "c-2"}
Tokens == {"tok-1", "tok-2"}
Ids == {"id1", "id2"}
AdTokens == {"imp-1"}
Marcas == {Undefined, Null, Num(0), Num(5)}
Modelos == {Undefined, Null, Num(0), Num(12)}
Autouploads == {Undefined, Bool(TRUE), Bool(FALSE)}
States == {Undefined, Str(""), Str("xyz"), Str("a b&c")}

IdLists == UNION { [1..n -> Ids] : n \in 0..MaxIds }
AdLists == { Arr(<<>>), Arr(<<Obj([subject |-> Str("Carro"), price |-> Num(100)])>>) }

\* what the caller's callback does when invoked: on which invocation it raises
CbBehaviours == {"never", "onSuccess", "onError", "always"}

\* bodies of 2xx answers
Bodies ==
    { Obj([access_token |-> Str("tok-xyz"), token_type |-> Str("bearer")]),
      Obj([statusCode |-> Num(0), token |-> Str("imp-1")]),
      Str(""),
      Null }

\* bodies of non-2xx answers
ErrorBodies ==
    { Obj([error |-> Str("invalid_grant")]),
      Str("Forbidden"),
      Str(""),
      Null,
      Num(0) }

\* err.response of a failed request: absent when nothing was received
FailureResponses == {Undefined} \cup { ErrorResponse(b) : b \in ErrorBodies }

PromiseInputs ==
    { [conv |-> "promise", method |-> "getAuthUrl", cb |-> "never",
       a |-> [autoupload |-> au, state |-> st]] : au \in Autouploads, st \in States }
    \cup { [conv |-> "promise", method |-> "getToken", cb |-> "never",
            a |-> [code |-> k]] : k \in Codes }
    \cup { [conv |-> "promise", method |-> m, cb |-> "never",
            a |-> [access_token |-> tk]] :
              m \in {"getAnuncios", "getBasicUserInfo", "getCilindradas"}, tk \in Tokens }
    \cup { [conv |-> "promise", method |-> "putAnuncios", cb |-> "never",
            a |-> [access_token |-> tk, anuncios |-> ads]] : tk \in Tokens, ads \in AdLists }
    \cup { [conv |-> "promise", method |-> "deleteAnuncios", cb |-> "never",
            a |-> [access_token |-> tk, id_anuncios |-> ids]] : tk \in Tokens, ids \in IdLists }
    \cup { [conv |-> "promise", method |-> "getStatusAnuncio", cb |-> "never",
            a |-> [access_token |-> tk, token_anuncio |-> ta]] : tk \in Tokens, ta \in AdTokens }
    \cup { [conv |-> "promise", method |-> m, cb |-> "never",
            a |-> [access_token |-> tk, id_marca |-> ma, id_modelo |-> mo]] :
              m \in {"getModelosCarros", "getModelosMotos"},
              tk \in Tokens, ma \in Marcas, mo \in Modelos }

CallbackInputs ==
    { [conv |-> "callback", method |-> "getAuthUrl", cb |-> "never",
       a |-> [autoupload |-> au, state |-> st]] : au \in Autouploads, st \in States }
    \cup { [conv |-> "callback", method |-> "getToken", cb |-> b,
            a |-> [code |-> k]] : k \in Codes, b \in CbBehaviours }
    \cup { [conv |-> "callback", method |-> m, cb |-> b,
            a |-> [access_token |-> tk]] :
              m \in {"getAnuncios", "getBasicUserInfo", "getMotoCilindradas"},
              tk \in Tokens, b \in CbBehaviours }
    \cup { [conv |-> "callback", method |-> "putAnuncios", cb |-> b,
            a |-> [access_token |-> tk, anuncios |-> ads]] :
              tk \in Tokens, ads \in AdLists, b \in CbBehaviours }
    \cup { [conv |-> "callback", method |-> "deleteAnuncios", cb |-> b,
            a |-> [access_token |-> tk, id_anuncios |-> ids]] :
              tk \in Tokens, ids \in IdLists, b \in CbBehaviours }
    \cup { [conv |-> "callback", method |-> "getStatusAnuncio", cb |-> b,
            a |-> [access_token |-> tk, token_anuncio |-> ta]] :
              tk \in Tokens, ta \in AdTokens, b \in CbBehaviours }
    \cup { [conv |-> "callback", method |-> m, cb |-> b,
            a |-> [access_token |-> tk, id_marca |-> ma, id_modelo |-> mo]] :
              m \in {"getCarroInfo", "getMotoInfo"},
              tk \in Tokens, ma \in Marcas, mo \in Modelos, b \in CbBehaviours }

StubInputs ==
    { [conv |-> "stub", method |-> "getToken", cb |-> "never", a |-> [code |-> k]] :
        k \in Codes }

Inputs == PromiseInputs \cup CallbackInputs \cup StubInputs

(***************************************************************************)
(* The calls.  A slot holds one call from its invocation to the moment     *)
(* the caller has been handed the outcome:                                 *)
(*   sent         the requests the call put on the wire, in order          *)
(*   response     the 2xx answer of the transport, once there is one       *)
(*   failure      the error the transport rejected with, once there is one *)
(*   reason       the rejection travelling down the .then/.catch chain     *)
(*   settled,                                                              *)
(*   value        the promise returned to the caller, or the value         *)
(*                returned synchronously (settled = "returned")            *)
(*   invocations  the invocations of the caller's callback, in order       *)
(*   unhandled    a rejection nobody handles left the chain                *)
(***************************************************************************)
Idle ==
    [conv |-> "none", method |-> "none", cb |-> "never", a |-> <<>>,
     pc |-> "idle", sent |-> <<>>, response |-> Undefined, failure |-> Undefined,
     reason |-> Undefined, settled |-> "none", value |-> Undefined,
     invocations |-> <<>>, unhandled |-> FALSE]

\* the requests a method has issued when it returns to its caller
PromiseIssued(m, a) ==
    CASE m = "getAuthUrl" -> <<>>
      [] m = "getToken" -> <<getToken(a.code)>>
      [] m = "getAnuncios" -> <<getAnuncios(a.access_token)>>
      [] m = "getBasicUserInfo" -> <<getBasicUserInfo(a.access_token)>>
      [] m = "putAnuncios" -> <<putAnuncios(a.access_token, a.anuncios)>>
      [] m = "deleteAnuncios" -> <<deleteAnuncios(a.access_token, a.id_anuncios)>>
      [] m = "getStatusAnuncio" -> <<getStatusAnuncio(a.access_token, a.token_anuncio)>>
      [] m = "getModelosCarros" ->
            <<getModelosCarros(a.access_token, a.id_marca, a.id_modelo)>>
      [] m = "getModelosMotos" ->
            <<getModelosMotos(a.access_token, a.id_marca, a.id_modelo)>>
      [] m = "getCilindradas" -> <<getCilindradas(a.access_token)>>

CallbackIssued(m, a) ==
    CASE m = "getAuthUrl" -> <<>>
      [] m = "getToken" -> <<getTokenCb(a.code)>>
      [] m = "getAnuncios" -> <<getAnunciosCb(a.access_token)>>
      [] m = "getBasicUserInfo" -> <<getBasicUserInfoCb(a.access_token)>>
      [] m = "putAnuncios" -> <<putAnunciosCb(a.access_token, a.anuncios)>>
      [] m = "deleteAnuncios" -> <<deleteAnunciosCb(a.access_token, a.id_anuncios)>>
      [] m = "getStatusAnuncio" -> <<getStatusAnuncioCb(a.access_token, a.token_anuncio)>>
      [] m = "getCarroInfo" -> <<getCarroInfo(a.access_token, a.id_marca, a.id_modelo)>>
      [] m = "getMotoInfo" -> <<getMotoInfo(a.access_token, a.id_marca, a.id_modelo)>>
      [] m = "getMotoCilindradas" -> <<getMotoCilindradas(a.access_token)>>

Issued(inp) ==
    CASE inp.conv = "stub" -> getTokenStub(inp.a.code)
      [] inp.conv = "promise" -> PromiseIssued(inp.method, inp.a)
      [] inp.conv = "callback" -> CallbackIssued(inp.method, inp.a)

\* the value a method returns synchronously, for the one method that has one
ReturnedUrl(inp) ==
    IF inp.conv = "promise"
    THEN Str(getAuthUrl(inp.a.autoupload, inp.a.state))
    ELSE Str(getAuthUrlCb(inp.a.autoupload, inp.a.state))

\* promise revision, .then((result) => resolve(...)): the value resolved with;
\* reading a property of null or undefined raises a TypeError instead
thenThrows(method, result) ==
    method = "getToken" /\ Nullish(Get(result, "data"))

\* getToken resolves with the whole body like the other methods
thenValue_wholeBody(method, result) == Get(result, "data")

thenValue(method, result) ==
    IF method = "getToken"
    THEN Get(Get(result, "data"), "access_token")
    ELSE Get(result, "data")

\* callback revision, .then((result) => callback(null, result.data))
thenCallback(method, result) ==
    [error |-> Null, data |-> Get(result, "data")]

\* the handler forgets the remote body: reject(err)
catchValue_errOnly(err) == err

\* the handler forgets the fallback: reject(err.response?.data)
catchValue_bodyOnly(err) == OptGet(Get(err, "response"), "data")

\* both revisions, .catch((err) => ...): err.response?.data || err
catchValue(err) ==
    OrElse(OptGet(Get(err, "response"), "data"), err)

\* the handler reports the error in the data position: callback(null, err)
catchCallback_asData(err) ==
    [error |-> Null, data |-> catchValue(err)]

\* callback revision, .catch((err) => callback(err.response?.data || err, null))
catchCallback(err) ==
    [error |-> catchValue(err), data |-> Null]

\* does the caller's callback raise on this invocation
Raises(cb, invocation) ==
    \/ cb = "always"
    \/ cb = "onSuccess" /\ invocation.error = Null
    \/ cb = "onError" /\ invocation.error # Null

(***************************************************************************)
(* Actions.                                                                *)
(***************************************************************************)
Slots == DOMAIN calls

\* getToken keeps the code it was given in a field of the instance
Call_keepsCode(c, inp) ==
    /\ calls[c].pc = "idle"
    /\ LET sync == inp.conv = "stub" \/ inp.method = "getAuthUrl"
           url == inp.conv # "stub" /\ inp.method = "getAuthUrl"
       IN  calls' = [calls EXCEPT ![c] =
               [conv |-> inp.conv, method |-> inp.method, cb |-> inp.cb, a |-> inp.a,
                pc |-> IF sync THEN "done" ELSE "pending",
                sent |-> Issued(inp),
                response |-> Undefined, failure |-> Undefined, reason |-> Undefined,
                settled |-> IF url THEN "returned"
                            ELSE IF inp.conv = "promise" THEN "pending" ELSE "none",
                value |-> IF url THEN ReturnedUrl(inp) ELSE Undefined,
                invocations |-> <<>>, unhandled |-> FALSE]]
    /\ redirect_uri' = IF inp.method = "getToken" /\ inp.conv # "stub"
                       THEN inp.a.code ELSE redirect_uri
    /\ UNCHANGED <<client_id, client_secret, ctor>>

\* a caller invokes a public method in a free slot; the method runs up to its return
Call(c, inp) ==
    /\ calls[c].pc = "idle"
    /\ LET sync == inp.conv = "stub" \/ inp.method = "getAuthUrl"
           url == inp.conv # "stub" /\ inp.method = "getAuthUrl"
       IN  calls' = [calls EXCEPT ![c] =
               [conv |-> inp.conv, method |-> inp.method, cb |-> inp.cb, a |-> inp.a,
                pc |-> IF sync THEN "done" ELSE "pending",
                sent |-> Issued(inp),
                response |-> Undefined, failure |-> Undefined, reason |-> Undefined,
                settled |-> IF url THEN "returned"
                            ELSE IF inp.conv = "promise" THEN "pending" ELSE "none",
                value |-> IF url THEN ReturnedUrl(inp) ELSE Undefined,
                invocations |-> <<>>, unhandled |-> FALSE]]
    /\ UNCHANGED <<client_id, client_secret, redirect_uri, ctor>>

\* the transport answers the call's request with a 2xx response
Respond(c, body) ==
    /\ calls[c].pc = "pending"
    /\ calls' = [calls EXCEPT ![c].response = Obj([data |-> body, status |-> Num(200)]),
                              ![c].pc = "then"]
    /\ UNCHANGED <<client_id, client_secret, redirect_uri, ctor>>

\* the transport rejects: a non-2xx answer (err.response set) or no answer at all
Fail(c, response) ==
    /\ calls[c].pc = "pending"
    /\ calls' = [calls EXCEPT ![c].failure = AxiosError(response, c),
                              ![c].reason = AxiosError(response, c),
                              ![c].pc = "catch"]
    /\ UNCHANGED <<client_id, client_secret, redirect_uri, ctor>>

\* the handler reads the result from a variable every call writes to
Then_sharedResult(c) ==
    \E o \in Slots :
    LET k == calls[c]
        shared == calls[o].response
    IN
    /\ k.pc = "then"
    /\ shared # Undefined
    /\ IF k.conv = "promise"
       THEN calls' = [calls EXCEPT ![c].settled = "fulfilled",
                                   ![c].value = thenValue(k.method, shared),
                                   ![c].pc = "done"]
       ELSE calls' = [calls EXCEPT ![c].invocations = Append(@, thenCallback(k.method, shared)),
                                   ![c].pc = "done"]
    /\ UNCHANGED <<client_id, client_secret, redirect_uri, ctor>>

\* the .then handler runs
Then(c) ==
    LET k == calls[c] IN
    /\ k.pc = "then"
    /\ IF k.conv = "promise"
       THEN IF thenThrows(k.method, k.response)
            THEN calls' = [calls EXCEPT ![c].reason = TypeError(c), ![c].pc = "catch"]
            ELSE calls' = [calls EXCEPT ![c].settled = "fulfilled",
                                        ![c].value = thenValue(k.method, k.response),
                                        ![c].pc = "done"]
       ELSE LET inv == thenCallback(k.method, k.response) IN
            IF Raises(k.cb, inv)
            THEN calls' = [calls EXCEPT ![c].invocations = Append(@, inv),
                                        ![c].reason = CallbackError(c),
                                        ![c].pc = "catch"]
            ELSE calls' = [calls EXCEPT ![c].invocations = Append(@, inv),
                                        ![c].pc = "done"]
    /\ UNCHANGED <<client_id, client_secret, redirect_uri, ctor>>

\* the .catch handler runs
Catch(c) ==
    LET k == calls[c] IN
    /\ k.pc = "catch"
    /\ IF k.conv = "promise"
       THEN calls' = [calls EXCEPT ![c].settled = "rejected",
                                   ![c].value = catchValue(k.reason),
                                   ![c].pc = "done"]
       ELSE LET inv == catchCallback(k.reason) IN
            calls' = [calls EXCEPT ![c].invocations = Append(@, inv),
                                   ![c].unhandled = Raises(k.cb, inv),
                                   ![c].pc = "done"]
    /\ UNCHANGED <<client_id, client_secret, redirect_uri, ctor>>

\* the caller has consumed the outcome: the slot is free for its next call
Forget(c) ==
    /\ calls[c].pc = "done"
    /\ calls' = [calls EXCEPT ![c] = Idle]
    /\ UNCHANGED <<client_id, client_secret, redirect_uri, ctor>>

\* the single slot of a caller that waits for each call before the next
Callers == {1}

\* new Olx(client_id, client_secret, redirect_uri), one caller at a time
Init ==
    /\ ctor \in Creds
    /\ client_id = ctor.client_id
    /\ client_secret = ctor.client_secret
    /\ redirect_uri = ctor.redirect_uri
    /\ calls = [c \in Callers |-> Idle]

Next ==
    \/ \E c \in Slots, inp \in Inputs : Call(c, inp)
    \/ \E c \in Slots, body \in Bodies : Respond(c, body)
    \/ \E c \in Slots, response \in FailureResponses : Fail(c, response)
    \/ \E c \in Slots : Then(c)
    \/ \E c \in Slots : Catch(c)
    \/ \E c \in Slots : Forget(c)

Spec == Init /\ [][Next]_vars

\* every handler of a settled request is eventually run (the microtask queue drains)
FairSpec ==
    Spec /\ \A c \in Callers : WF_vars(Then(c)) /\ WF_vars(Catch(c))

(***************************************************************************)
(* Several calls in flight on one instance: the callers invoke methods     *)
(* without waiting for each other and the answers arrive in any order.     *)
(***************************************************************************)
ConcInputs ==
    { [conv |-> "promise", method |-> "getToken", cb |-> "never",
       a |-> [code |-> k]] : k \in Codes }
    \cup { [conv |-> "promise", method |-> "putAnuncios", cb |-> "never",
            a |-> [access_token |-> tk, anuncios |-> Arr(<<>>)]] : tk \in Tokens }
    \cup { [conv |-> "callback", method |-> "getAnuncios", cb |-> "never",
            a |-> [access_token |-> tk]] : tk \in Tokens }

ConcBodies ==
    { Obj([access_token |-> Str("tok-xyz"), token_type |-> Str("bearer")]),
      Obj([statusCode |-> Num(0), token |-> Str("imp-1")]) }

ConcFailureResponses ==
    { Undefined, ErrorResponse(Obj([error |-> Str("invalid_grant")])) }

InitConc ==
    /\ ctor \in Creds
    /\ client_id = ctor.client_id
    /\ client_secret = ctor.client_secret
    /\ redirect_uri = ctor.redirect_uri
    /\ calls = [c \in 1..MaxInFlight |-> Idle]

NextConc ==
    \/ \E c \in Slots, inp \in ConcInputs : Call(c, inp)
    \/ \E c \in Slots, body \in ConcBodies : Respond(c, body)
    \/ \E c \in Slots, response \in ConcFailureResponses : Fail(c, response)
    \/ \E c \in Slots : Then(c)
    \/ \E c \in Slots : Catch(c)
    \/ \E c \in Slots : Forget(c)

SpecConc == InitConc /\ [][NextConc]_vars

(***************************************************************************)
(* What a caller has been handed, in one shape for both conventions: the   *)
(* sequence of (error, data) notifications.  A fulfilled promise is        *)
(* (null, value), a rejected one (reason, null); under the callback        *)
(* convention it is the invocations of the callback.                       *)
(***************************************************************************)
Notifications(c) ==
    LET k == calls[c] IN
    IF k.conv = "promise"
    THEN CASE k.settled = "fulfilled" -> << [error |-> Null, data |-> k.value] >>
           [] k.settled = "rejected" -> << [error |-> k.value, data |-> Null] >>
           [] OTHER -> << >>
    ELSE k.invocations

\* the call's request failed at the transport and the call has run to its end
FailedDone(c) == calls[c].pc = "done" /\ calls[c].failure # Undefined

\* the body of the remote answer carried by the call's transport error
FailureBody(c) == Get(Get(calls[c].failure, "response"), "data")

HasFailureResponse(c) == FailedDone(c) /\ Get(calls[c].failure, "response") # Undefined

StartsWith(s, prefix) ==
    Len(s) >= Len(prefix) /\ SubSeq(s, 1, Len(prefix)) = prefix

EndsWith(s, suffix) ==
    Len(s) >= Len(suffix) /\ SubSeq(s, Len(s) - Len(suffix) + 1, Len(s)) = suffix

Contains(s, sub) ==
    \E i \in 1..(Len(s) - Len(sub) + 1) : SubSeq(s, i, i + Len(sub) - 1) = sub

(***************************************************************************)
(* C1 as stated: whenever the transport error carries a remote response,   *)
(* the caller is handed exactly the body of that response, whatever the    *)
(* body is, and never the transport error object.                          *)
(***************************************************************************)
C1_AnyBodyIsTheError ==
    \A c \in Slots :
        HasFailureResponse(c) =>
            Notifications(c) = << [error |-> FailureBody(c), data |-> Null] >>

(***************************************************************************)
(* C1 amended: when the transport error carries a remote response whose    *)
(* body is truthy, the caller is handed exactly that body and not the      *)
(* transport error; when the body is falsy (empty string, null, 0) the     *)
(* caller is handed the transport error object itself.                     *)
(***************************************************************************)
C1_TruthyBodyIsTheError ==
    \A c \in Slots :
        HasFailureResponse(c) =>
            /\ FailureBody(c) \in {Str(""), Null, Num(0), Undefined, Bool(FALSE)} =>
                  Notifications(c) = << [error |-> calls[c].failure, data |-> Null] >>
            /\ FailureBody(c) \notin {Str(""), Null, Num(0), Undefined, Bool(FALSE)} =>
                  /\ Notifications(c) = << [error |-> FailureBody(c), data |-> Null] >>
                  /\ Notifications(c)[1].error # calls[c].failure

C1_Witness ==
    \E c \in Slots :
        /\ HasFailureResponse(c)
        /\ FailureBody(c) = Obj([error |-> Str("invalid_grant")])
        /\ Notifications(c) = << [error |-> FailureBody(c), data |-> Null] >>

(***************************************************************************)
(* C2: whenever the transport fails without any response, the caller is    *)
(* handed the raw transport error object, unchanged.                       *)
(***************************************************************************)
C2_NoResponseIsRawError ==
    \A c \in Slots :
        (FailedDone(c) /\ Get(calls[c].failure, "response") = Undefined) =>
            Notifications(c) = << [error |-> AxiosError(Undefined, c), data |-> Null] >>

C2_Witness ==
    \E c \in Slots :
        /\ FailedDone(c)
        /\ Get(calls[c].failure, "response") = Undefined
        /\ calls[c].conv = "callback"
        /\ calls[c].invocations = << [error |-> calls[c].failure, data |-> Null] >>

(***************************************************************************)
(* The token request as the API expects it: a form-encoded POST to         *)
(* /oauth/token on the auth host with exactly these five fields.           *)
(***************************************************************************)
TokenRequestFor(code) ==
    [api |-> "authApi", verb |-> "POST", path |-> "/oauth/token",
     contentType |-> "application/x-www-form-urlencoded",
     data |-> [t |-> "form",
               pairs |-> << [name |-> "code", value |-> code],
                            [name |-> "client_id", value |-> ctor.client_id],
                            [name |-> "client_secret", value |-> ctor.client_secret],
                            [name |-> "redirect_uri", value |-> ctor.redirect_uri],
                            [name |-> "grant_type", value |-> "authorization_code"] >>]]

\* a getToken call of the promise-returning or of the callback revision
IsGetToken(c) ==
    calls[c].method = "getToken" /\ calls[c].conv \in {"promise", "callback"}

SucceededDone(c) == calls[c].pc = "done" /\ calls[c].response # Undefined

(***************************************************************************)
(* C3 as stated: getToken(code) issues the token request, and when the     *)
(* response succeeds with a JSON object the caller is handed the           *)
(* access_token field of that object, not the whole body.                  *)
(***************************************************************************)
C3_TokenFieldDelivered ==
    \A c \in Slots :
        IsGetToken(c) =>
            /\ calls[c].sent = << TokenRequestFor(calls[c].a.code) >>
            /\ (SucceededDone(c) /\ Get(calls[c].response, "data").t = "obj") =>
                  /\ Len(Notifications(c)) >= 1
                  /\ Notifications(c)[1] =
                        [error |-> Null,
                         data |-> Get(Get(calls[c].response, "data"), "access_token")]

(***************************************************************************)
(* C3 amended: getToken issues the token request in both revisions.  When  *)
(* the response succeeds, the promise-returning getToken fulfils with the  *)
(* access_token field of the body (undefined when the body has none) and   *)
(* rejects with a TypeError when the body is null; the callback getToken   *)
(* hands its callback (null, <the whole response body>).                   *)
(***************************************************************************)
C3_TokenFieldOrWholeBody ==
    \A c \in Slots :
        IsGetToken(c) =>
            /\ calls[c].sent = << TokenRequestFor(calls[c].a.code) >>
            /\ SucceededDone(c) =>
                  LET body == Get(calls[c].response, "data") IN
                  IF calls[c].conv = "promise"
                  THEN IF body = Null
                       THEN Notifications(c) = << [error |-> TypeError(c), data |-> Null] >>
                       ELSE Notifications(c) =
                              << [error |-> Null,
                                  data |-> IF body.t = "obj" /\ "access_token" \in DOMAIN body.f
                                           THEN body.f.access_token ELSE Undefined] >>
                  ELSE /\ Len(Notifications(c)) >= 1
                       /\ Notifications(c)[1] = [error |-> Null, data |-> body]

C3_Witness ==
    \E c \in Slots :
        /\ IsGetToken(c)
        /\ calls[c].conv = "promise"
        /\ SucceededDone(c)
        /\ calls[c].a.code = "abc123"
        /\ calls[c].sent = << TokenRequestFor("abc123") >>
        /\ Notifications(c) = << [error |-> Null, data |-> Str("tok-xyz")] >>

(***************************************************************************)
(* C4: every call of a request-issuing method has put exactly one request  *)
(* on the wire, from its return to its end and whatever the outcome;       *)
(* getAuthUrl has put none.                                                *)
(***************************************************************************)
C4_ExactlyOneRequest ==
    \A c \in Slots :
        calls[c].pc # "idle" =>
            IF calls[c].method = "getAuthUrl"
            THEN Len(calls[c].sent) = 0
            ELSE Len(calls[c].sent) = 1

(***************************************************************************)
(* C5: getModelosCarros requests /autoupload/car_info with no suffix when  *)
(* id_marca is absent, null or 0 (whatever id_modelo is),                  *)
(* /autoupload/car_info/<id_marca> when only id_modelo is absent, null or  *)
(* 0, and /autoupload/car_info/<id_marca>/<id_modelo> otherwise;           *)
(* getModelosMotos does the same on /autoupload/moto_info.                 *)
(***************************************************************************)
CatalogPath(base, id_marca, id_modelo) ==
    IF id_marca \in {Undefined, Null, Num(0)} THEN base
    ELSE IF id_modelo \in {Undefined, Null, Num(0)}
         THEN base \o "/" \o ToString(id_marca.v)
         ELSE base \o "/" \o ToString(id_marca.v) \o "/" \o ToString(id_modelo.v)

C5_CatalogPaths ==
    \A c \in Slots :
        /\ calls[c].method = "getModelosCarros" =>
              /\ Len(calls[c].sent) = 1
              /\ calls[c].sent[1].path =
                    CatalogPath("/autoupload/car_info", calls[c].a.id_marca, calls[c].a.id_modelo)
        /\ calls[c].method = "getModelosMotos" =>
              /\ Len(calls[c].sent) = 1
              /\ calls[c].sent[1].path =
                    CatalogPath("/autoupload/moto_info", calls[c].a.id_marca, calls[c].a.id_modelo)

\* the four cases the documentation lists, the ignored id_modelo among them
C5_Witness ==
    \E c \in Slots :
        /\ calls[c].method = "getModelosCarros"
        /\ calls[c].a.id_marca = Undefined
        /\ calls[c].a.id_modelo = Num(12)
        /\ calls[c].sent[1].path = "/autoupload/car_info"

(***************************************************************************)
(* C6: deleteAnuncios issues exactly one PUT to /autoupload/import whose   *)
(* body is {access_token, ad_list}, ad_list being as long as the id list   *)
(* with {id: <i-th id>, operation: "delete"} at position i.                *)
(***************************************************************************)
C6_DeleteBody ==
    \A c \in Slots :
        calls[c].method = "deleteAnuncios" =>
            /\ Len(calls[c].sent) = 1
            /\ LET r == calls[c].sent[1]
                   ids == calls[c].a.id_anuncios
               IN  /\ r.verb = "PUT"
                   /\ r.path = "/autoupload/import"
                   /\ r.api = "appApi"
                   /\ r.data.t = "obj"
                   /\ DOMAIN r.data.f = {"access_token", "ad_list"}
                   /\ r.data.f.access_token = calls[c].a.access_token
                   /\ r.data.f.ad_list.t = "arr"
                   /\ Len(r.data.f.ad_list.items) = Len(ids)
                   /\ \A i \in 1..Len(ids) :
                         r.data.f.ad_list.items[i] = [id |-> ids[i], operation |-> "delete"]

C6_Witness ==
    \E c \in Slots :
        /\ calls[c].method = "deleteAnuncios"
        /\ calls[c].a.id_anuncios = << "id2", "id2" >>
        /\ calls[c].sent[1].verb = "PUT"
        /\ calls[c].sent[1].data.f.ad_list.items =
              << [id |-> "id2", operation |-> "delete"],
                 [id |-> "id2", operation |-> "delete"] >>

(***************************************************************************)
(* getAuthUrl calls and the URL they returned.                             *)
(***************************************************************************)
IsAuthUrl(c) == calls[c].method = "getAuthUrl" /\ calls[c].pc = "done"

UrlOf(c) == calls[c].value.v

\* the scope value the call asked for: autoupload omitted counts as true
ScopeOf(c) ==
    IF calls[c].a.autoupload = Bool(FALSE)
    THEN "basic_user_info"
    ELSE "basic_user_info%20autoupload"

(***************************************************************************)
(* C7 as stated: for every state given to getAuthUrl, the empty string     *)
(* included, the URL ends with &state=<state> right after the scope        *)
(* parameter; when state is omitted nothing follows the scope parameter.   *)
(***************************************************************************)
C7_EveryStateAppended ==
    \A c \in Slots :
        IsAuthUrl(c) =>
            IF calls[c].a.state = Undefined
            THEN EndsWith(UrlOf(c), "&scope=" \o ScopeOf(c))
            ELSE EndsWith(UrlOf(c),
                          "&scope=" \o ScopeOf(c) \o "&state=" \o calls[c].a.state.v)

(***************************************************************************)
(* C7 amended: for every non-empty state given to getAuthUrl the URL ends  *)
(* with &state=<state>, verbatim, right after the scope parameter; when    *)
(* state is omitted or is the empty string nothing follows the scope       *)
(* parameter.                                                              *)
(***************************************************************************)
C7_NonEmptyStateAppended ==
    \A c \in Slots :
        IsAuthUrl(c) =>
            IF calls[c].a.state \in {Undefined, Str("")}
            THEN EndsWith(UrlOf(c), "&scope=" \o ScopeOf(c))
            ELSE EndsWith(UrlOf(c),
                          "&scope=" \o ScopeOf(c) \o "&state=" \o calls[c].a.state.v)

C7_Witness ==
    \E c \in Slots :
        /\ IsAuthUrl(c)
        /\ calls[c].a.state = Str("a b&c")
        /\ EndsWith(UrlOf(c), "&state=a b&c")

(***************************************************************************)
(* C8: for autoupload true, false and omitted, the URL returned by         *)
(* getAuthUrl has scope=basic_user_info, followed by %20autoupload exactly *)
(* when autoupload is true or omitted, and carries response_type=code and  *)
(* the client_id and redirect_uri given to the constructor.                *)
(***************************************************************************)
C8_ScopeAndCredentials ==
    \A c \in Slots :
        IsAuthUrl(c) =>
            LET url == UrlOf(c)
                head == "response_type=code&client_id=" \o ctor.client_id
                        \o "&redirect_uri=" \o ctor.redirect_uri \o "&scope=basic_user_info"
                at == Len(GET_TOKEN_URL) + Len("/oauth?")
                rest == SubSeq(url, at + Len(head) + 1, Len(url))
            IN  /\ StartsWith(url, GET_TOKEN_URL)
                /\ SubSeq(url, at + 1, at + Len(head)) = head
                /\ StartsWith(rest, "%20autoupload")
                      <=> calls[c].a.autoupload \in {Undefined, Bool(TRUE)}
                /\ Contains(url, "scope=basic_user_info%20autoupload")
                      <=> calls[c].a.autoupload \in {Undefined, Bool(TRUE)}

C8_Witness ==
    \E c \in Slots :
        /\ IsAuthUrl(c)
        /\ calls[c].a.autoupload = Undefined
        /\ ctor.client_id = "cid-2"
        /\ Contains(UrlOf(c), "client_id=cid-2&redirect_uri=https://app.example/cb?x=1&y=2")
        /\ Contains(UrlOf(c), "&scope=basic_user_info%20autoupload")

(***************************************************************************)
(* C9: every failure is surfaced.  A call whose request failed ends with   *)
(* its caller handed exactly one notification, an error one (the promise   *)
(* rejected, or the callback invoked with a truthy first argument and null *)
(* data), never a success one and never none; and every call whose request *)
(* failed does reach that end.                                             *)
(***************************************************************************)
ErrorSurfaced(c) ==
    /\ FailedDone(c)
    /\ Len(Notifications(c)) = 1
    /\ Notifications(c)[1].error \notin {Null, Undefined, Str(""), Num(0), Bool(FALSE)}
    /\ Notifications(c)[1].data = Null
    /\ calls[c].conv = "promise" => calls[c].settled = "rejected"

C9_FailureSurfaced ==
    /\ [](\A c \in Callers : FailedDone(c) => ErrorSurfaced(c))
    /\ \A c \in Callers : (calls[c].failure # Undefined) ~> ErrorSurfaced(c)

C9_Witness ==
    \E c \in Slots :
        /\ ErrorSurfaced(c)
        /\ calls[c].conv = "callback"
        /\ calls[c].method = "getStatusAnuncio"
        /\ calls[c].cb = "onError"

(***************************************************************************)
(* C10: with several calls in flight on one instance and the answers       *)
(* arriving in any order, the request of each call is built from its own   *)
(* arguments and the constructor's credentials, and each caller is handed  *)
(* the result or the error of its own request.                             *)
(***************************************************************************)
OwnRequest(c) ==
    LET k == calls[c] IN
    CASE k.method = "getToken" -> k.sent = << TokenRequestFor(k.a.code) >>
      [] k.method = "putAnuncios" ->
            /\ Len(k.sent) = 1
            /\ k.sent[1].data =
                  Obj([access_token |-> k.a.access_token, ad_list |-> k.a.anuncios])
      [] k.method = "getAnuncios" ->
            /\ Len(k.sent) = 1
            /\ k.sent[1].data = Obj([access_token |-> k.a.access_token])
      [] OTHER -> TRUE

OwnOutcome(c) ==
    LET k == calls[c] IN
    IF k.failure # Undefined
    THEN /\ k.failure.of = c
         /\ Notifications(c) =
               << [error |-> IF Get(k.failure, "response") = Undefined
                             THEN k.failure
                             ELSE Get(Get(k.failure, "response"), "data"),
                   data |-> Null] >>
    ELSE Notifications(c) =
               << [error |-> Null,
                   data |-> IF k.method = "getToken"
                            THEN Get(Get(k.response, "data"), "access_token")
                            ELSE Get(k.response, "data")] >>

C10_EachCallItsOwn ==
    \A c \in Slots :
        /\ calls[c].pc # "idle" => OwnRequest(c)
        /\ calls[c].pc = "done" => OwnOutcome(c)

\* two calls in flight at once, answered differently: one has been handed its
\* own error while the other's response is still waiting for its handler
C10_Witness ==
    \E c, d \in Slots :
        /\ c # d
        /\ calls[c].pc = "then"
        /\ calls[d].pc = "done"
        /\ calls[d].failure # Undefined
        /\ calls[c].a # calls[d].a
        /\ OwnOutcome(d)

(***************************************************************************)
(* One caller making a sequence of calls on one instance, each awaited     *)
(* before the next: slot n holds the n-th call and its outcome.            *)
(***************************************************************************)
MaxCalls == 3

SeqInputs ==
    { [conv |-> "promise", method |-> "getAuthUrl", cb |-> "never",
       a |-> [autoupload |-> au, state |-> st]] :
          au \in {Undefined, Bool(FALSE)}, st \in {Undefined, Str("xyz")} }
    \cup { [conv |-> "promise", method |-> "getToken", cb |-> "never",
            a |-> [code |-> "abc123"]] }
    \cup { [conv |-> "promise", method |-> "deleteAnuncios", cb |-> "never",
            a |-> [access_token |-> "tok-1", id_anuncios |-> <<"id1">>]] }
    \cup { [conv |-> "callback", method |-> "getAnuncios", cb |-> "never",
            a |-> [access_token |-> "tok-1"]] }

InitSeq ==
    /\ ctor \in Creds
    /\ client_id = ctor.client_id
    /\ client_secret = ctor.client_secret
    /\ redirect_uri = ctor.redirect_uri
    /\ calls = [c \in 1..MaxCalls |-> Idle]

\* the next call is made once the previous one has run to its end
Awaited(c) == IF c = 1 THEN TRUE ELSE calls[c - 1].pc = "done"

NextSeq ==
    \/ \E c \in Slots, inp \in SeqInputs : Awaited(c) /\ Call(c, inp)
    \/ \E c \in Slots, body \in ConcBodies : Respond(c, body)
    \/ \E c \in Slots, response \in ConcFailureResponses : Fail(c, response)
    \/ \E c \in Slots : Then(c)
    \/ \E c \in Slots : Catch(c)

SpecSeq == InitSeq /\ [][NextSeq]_vars

(***************************************************************************)
(* C11: after any sequence of calls, succeeding or failing, the fields     *)
(* client_id, client_secret and redirect_uri hold the values given to the  *)
(* constructor; and two getAuthUrl calls with identical arguments have     *)
(* returned identical strings, whatever calls were made in between.        *)
(***************************************************************************)
C11_CredentialsKept ==
    /\ client_id = ctor.client_id
    /\ client_secret = ctor.client_secret
    /\ redirect_uri = ctor.redirect_uri
    /\ \A c, d \in Slots :
          (IsAuthUrl(c) /\ IsAuthUrl(d) /\ calls[c].a = calls[d].a) =>
              UrlOf(c) = UrlOf(d)

\* getAuthUrl, then a token exchange that failed, then the same getAuthUrl again
C11_Witness ==
    /\ IsAuthUrl(1)
    /\ calls[2].method = "getToken"
    /\ FailedDone(2)
    /\ IsAuthUrl(3)
    /\ calls[3].a = calls[1].a
    /\ calls[1].a.state = Str("xyz")
    /\ UrlOf(3) = UrlOf(1)
    /\ redirect_uri = ctor.redirect_uri

(***************************************************************************)
(* C12: under the error-first callback convention every call invokes its   *)
(* callback at most once, with (null, data) or with (error, null), never   *)
(* with both in one execution, whatever the callback does when invoked.    *)
(***************************************************************************)
C12_CallbackAtMostOnce ==
    \A c \in Slots :
        calls[c].conv = "callback" =>
            /\ Len(calls[c].invocations) <= 1
            /\ \A i \in 1..Len(calls[c].invocations) :
                  \/ calls[c].invocations[i].error = Null
                  \/ calls[c].invocations[i].data = Null

====
